---- MODULE Spec2Model ----
(***************************************************************************)
(* Model of the petname combination engine (src/src/lib.rs): the role      *)
(* sequence Lists, Petnames::cardinality, Petnames::generate, and the      *)
(* non-repeating product iterator NamesProduct.                            *)
(*                                                                         *)
(* Representation.  A str / String is a sequence of one-character strings. *)
(* An Option is a sequence of length at most one: None is << >> and        *)
(* Some(x) is << x >>.  A u128 / usize is a little-endian sequence of      *)
(* limbs in base 2^16 without leading zero limbs (zero is << >>), so that  *)
(* the 128-bit and 64-bit widths of the source are kept exactly.           *)
(***************************************************************************)
EXTENDS Integers, Sequences, FiniteSets, TLC

\* ------------------------------------------------------------------ bounds
\* Longest word list given to Petnames::new.
MaxLen == 2
\* Largest word count for which a generator is run to its end.
MaxWords == 3
\* Requests made on a NamesProduct after its first end-of-sequence.
MaxAfterEnd == 2
\* Most combinations of a product that a NamesProduct is run through.
MaxRun == 8
\* Most lists given to NamesProduct::capacity on its own.
MaxPositions == 5
\* Largest --letters and largest --count given to a run.
MaxLetters == 1
MaxCount == 2
\* Requests made on a repeating iterator.
MaxRequests == 2

\* --------------------------------------------------------- program constants
U8Max == 255
U128Bits == 128
UsizeBits == 64

\* ------------------------------------------------------------------ Option
None == << >>
Some(x) == << x >>
IsSome(o) == Len(o) = 1
IsNone(o) == Len(o) = 0
Unwrap(o) == o[1]

\* ------------------------------------------------------------ wide integers
Base == 2 ^ 16
Zero == << >>
One == << 1 >>

RECURSIVE NatToBig(_)
NatToBig(k) == IF k = 0 THEN << >> ELSE << k % Base >> \o NatToBig(k \div Base)

RECURSIVE MulCarry(_, _, _)
\* a * k + c, exact, for a wide integer a and small naturals k >= 1 and c.
MulCarry(a, k, c) ==
    IF Len(a) = 0 THEN NatToBig(c)
    ELSE LET t == a[1] * k + c
         IN  << t % Base >> \o MulCarry(Tail(a), k, t \div Base)

\* a * k, exact (unbounded width).
MulSmall(a, k) == IF k = 0 THEN Zero ELSE MulCarry(a, k, 0)

\* The largest value of a bits-wide unsigned integer: u128::MAX, usize::MAX.
MaxOf(bits) == [i \in 1..(bits \div 16) |-> Base - 1]

Fits(a, bits) == Len(a) <= bits \div 16

\* u128::saturating_mul(a, k) for a list length k.
SaturatingMulWrapping(a, k) ==
    LET p == MulSmall(a, k)
    IN  IF Fits(p, U128Bits) THEN p ELSE SubSeq(p, 1, U128Bits \div 16)
SaturatingMulSticky(a, k) ==
    LET p == MulSmall(a, k)
    IN  IF a = MaxOf(U128Bits) \/ ~Fits(p, U128Bits) THEN MaxOf(U128Bits) ELSE p
SaturatingMul(a, k) ==
    LET p == MulSmall(a, k)
    IN  IF Fits(p, U128Bits) THEN p ELSE MaxOf(U128Bits)

\* usize::checked_mul(a, k): None on overflow.
CheckedMulSaturating(a, k) ==
    LET p == MulSmall(a, k)
    IN  IF Fits(p, UsizeBits) THEN Some(p) ELSE Some(MaxOf(UsizeBits))
CheckedMul(a, k) ==
    LET p == MulSmall(a, k)
    IN  IF Fits(p, UsizeBits) THEN Some(p) ELSE None

RECURSIVE AddCarry(_, _, _)
\* a + b + c, exact, for wide integers a, b and a carry c.
AddCarry(a, b, c) ==
    IF Len(a) = 0 /\ Len(b) = 0 THEN NatToBig(c)
    ELSE LET x == IF Len(a) = 0 THEN 0 ELSE a[1]
             y == IF Len(b) = 0 THEN 0 ELSE b[1]
             t == x + y + c
         IN  << t % Base >>
             \o AddCarry(IF Len(a) = 0 THEN a ELSE Tail(a),
                         IF Len(b) = 0 THEN b ELSE Tail(b), t \div Base)

\* a + b, exact (unbounded width).
Add(a, b) == AddCarry(a, b, 0)

RECURSIVE Normal(_)
\* Limbs without the leading zero limbs.
Normal(a) ==
    IF Len(a) = 0 \/ a[Len(a)] # 0 THEN a ELSE Normal(SubSeq(a, 1, Len(a) - 1))

\* The low bits of a: what a wrapping operation of that width leaves.
Wrapped(a, bits) ==
    IF Fits(a, bits) THEN a ELSE Normal(SubSeq(a, 1, bits \div 16))

RECURSIVE Leq(_, _)
\* a <= b.
Leq(a, b) ==
    IF Len(a) # Len(b) THEN Len(a) < Len(b)
    ELSE IF Len(a) = 0 THEN TRUE
    ELSE IF a[Len(a)] # b[Len(b)] THEN a[Len(a)] < b[Len(b)]
    ELSE Leq(Normal(SubSeq(a, 1, Len(a) - 1)), Normal(SubSeq(b, 1, Len(b) - 1)))

\* usize::saturating_add and usize::saturating_mul at a given width.
UsizeSaturatingAdd(a, b, bits) ==
    LET t == Add(a, b) IN IF Fits(t, bits) THEN t ELSE MaxOf(bits)
UsizeSaturatingMul(a, k, bits) ==
    LET p == MulSmall(a, k) IN IF Fits(p, bits) THEN p ELSE MaxOf(bits)

RECURSIVE PowerOfTwoFrom(_, _)
\* The least power of two that is at least a, from the power of two p up.
PowerOfTwoFrom(p, a) == IF Leq(a, p) THEN p ELSE PowerOfTwoFrom(MulSmall(p, 2), a)

\* usize::checked_next_power_of_two: None when it does not fit.
CheckedNextPowerOfTwo(a, bits) ==
    LET p == PowerOfTwoFrom(One, a) IN IF Fits(p, bits) THEN Some(p) ELSE None

\* ------------------------------------------------------------------- words
AdjectiveWords == << <<"a">>, <<"a", "b">>, <<"b">>, <<"b", "a">> >>
AdverbWords == << <<"b">>, <<"a">>, <<"b", "b">>, <<"a", "a">> >>
NameWords == << <<"b", "a">>, <<"a">>, <<"b">>, <<"a", "b">> >>
Separators == { << >>, <<"-">> }

Min(x, y) == IF x <= y THEN x ELSE y
Prefixes(pool) == { SubSeq(pool, 1, k) : k \in 0..Min(MaxLen, Len(pool)) }
\* A list in which one word occurs twice.
Doubled(pool) == << pool[1], pool[1] >>

VARIABLES
    adjectives, adverbs, names,   \* Petnames
    pc,                           \* which value the caller holds
    words, separator,             \* arguments of the last call
    card,                         \* result of cardinality
    lists_word, roles, lists_item,\* Lists: counter, items collected, last item
    iters, size,                  \* NamesProduct
    item,                         \* result of the last request on an iterator
    generated, picked,            \* result of generate, and the draws behind it
    yielded,                      \* what an iterator yielded before its first None
    ended,                        \* whether it has returned None
    after,                        \* the items it returned after its first None
    panicked,                     \* whether an operation panicked
    applied,                      \* the predicates given to retain, in order
    capacity_of, capacity,        \* NamesProduct::capacity: arguments, result
    opts,                         \* the command line of a run
    letter,                       \* the letter a run alliterates with
    stdout,                       \* the lines a run has written
    error, exit_status            \* how a run ended

vars == << adjectives, adverbs, names, pc, words, separator, card,
           lists_word, roles, lists_item, iters, size, item, generated,
           picked, yielded, ended, after, panicked, applied, capacity_of,
           capacity, opts, letter, stdout, error, exit_status >>

\* The variables of NamesProduct::capacity and of the command-line run.
capacity_vars == << capacity_of, capacity >>
cli_vars == << opts, letter, stdout, error, exit_status >>

petnames == [adjectives |-> adjectives, adverbs |-> adverbs, names |-> names]

\* ------------------------------------------------------------------ retain
\* A predicate on words, as the set of the words it is true of; the words
\* that matter are those of the lists.
Vocabulary ==
    UNION { { pool[i] : i \in 1..Min(MaxLen, Len(pool)) } :
              pool \in { AdjectiveWords, AdverbWords, NameWords } }
Predicates == SUBSET Vocabulary

RECURSIVE VecRetain(_, _)
\* Vec::retain: visits the elements in order and keeps those the predicate
\* is true of.
VecRetain(list, p) ==
    IF Len(list) = 0 THEN << >>
    ELSE (IF Head(list) \in p THEN << Head(list) >> ELSE << >>)
         \o VecRetain(Tail(list), p)

RECURSIVE RemoveFirstFailing(_, _)
RemoveFirstFailing(list, p) ==
    IF Len(list) = 0 THEN << >>
    ELSE IF Head(list) \in p THEN << Head(list) >> \o RemoveFirstFailing(Tail(list), p)
    ELSE Tail(list)

\* Petnames::retain: the lists afterwards.
RetainOfRemovingOne(pn, p) ==
    [ adjectives |-> RemoveFirstFailing(pn.adjectives, p),
      adverbs |-> RemoveFirstFailing(pn.adverbs, p),
      names |-> RemoveFirstFailing(pn.names, p) ]
RetainOfSkippingAdverbs(pn, p) ==
    [ adjectives |-> VecRetain(pn.adjectives, p),
      adverbs |-> pn.adverbs,
      names |-> VecRetain(pn.names, p) ]
RetainOf(pn, p) ==
    [ adjectives |-> VecRetain(pn.adjectives, p),
      adverbs |-> VecRetain(pn.adverbs, p),
      names |-> VecRetain(pn.names, p) ]

\* ------------------------------------------------- predicates of the run
\* |s| s.len() <= opt_letters and |s| s.starts_with(c).
LettersPredicate(k) == { w \in Vocabulary : Len(w) <= k }
StartsWith(c) == { w \in Vocabulary : Len(w) >= 1 /\ w[1] = c }

\* first_letters and common_first_letters.
FirstLetters(list) ==
    { list[i][1] : i \in { j \in 1..Len(list) : Len(list[j]) >= 1 } }
CommonFirstLetters(init, more) ==
    { c \in FirstLetters(init) : \A k \in 1..Len(more) : c \in FirstLetters(more[k]) }

\* ------------------------------------------------------------------- Lists
\* Lists::next on counter `word`: the item (an Option of a list name) and the
\* counter afterwards.
ListsNextSwapped(word) ==
    IF word = 0 THEN [item |-> None, word |-> 0]
    ELSE IF word = 1 THEN [item |-> Some("names"), word |-> 0]
    ELSE IF word = 2 THEN [item |-> Some("adverbs"), word |-> 1]
    ELSE [item |-> Some("adjectives"), word |-> word - 1]
ListsNext(word) ==
    IF word = 0 THEN [item |-> None, word |-> 0]
    ELSE IF word = 1 THEN [item |-> Some("names"), word |-> word - 1]
    ELSE IF word = 2 THEN [item |-> Some("adjectives"), word |-> word - 1]
    ELSE [item |-> Some("adverbs"), word |-> word - 1]

\* A Lists that is being consumed: its counter, the items it yielded, and
\* whether it has yielded None.
ListsOf(n) == [word |-> n, items |-> << >>, ended |-> FALSE]

RECURSIVE ListsRun(_, _)
\* At most k requests on a Lists, stopping at its first None.
ListsRun(st, k) ==
    IF k = 0 \/ st.ended THEN st
    ELSE LET r == ListsNext(st.word)
         IN  ListsRun([word |-> r.word,
                       items |-> IF IsNone(r.item) THEN st.items
                                 ELSE Append(st.items, Unwrap(r.item)),
                       ended |-> IsNone(r.item)],
                      k - 1)

RECURSIVE ListsDrain(_)
\* A Lists consumed up to its first None (evaluated sixteen requests at a
\* time, which keeps the evaluation shallow).
ListsDrain(st) == IF st.ended THEN st ELSE ListsDrain(ListsRun(st, 16))

\* All items of Lists(_, n) up to its first None.
ListsCollect(n) == ListsDrain(ListsOf(n)).items

\* The list a Lists item refers to.
ListOf(p, role) == p[role]

\* `*word -= 1` panics when the u8 overflows (builds with overflow checks);
\* Lists::next reaches it in the arms 1, 2 and _, never in the arm 0.
ListsNextPanics(word) == word # 0 /\ word - 1 < 0

\* A Lists(_, n) consumed to its end is asked with every counter from n
\* down to 0.
ListsPanics(n) == \E word \in 0..n : ListsNextPanics(word)

\* ------------------------------------------------------------- cardinality
RECURSIVE FoldSaturatingMul(_, _, _)
\* At most k further steps of fold(u128::saturating_mul) over the lengths of
\* the lists a Lists yields; st.acc is the accumulator.
FoldSaturatingMul(p, st, k) ==
    IF k = 0 \/ st.ended THEN st
    ELSE LET r == ListsNext(st.word)
         IN  FoldSaturatingMul(
                 p,
                 [word |-> r.word,
                  acc |-> IF IsNone(r.item) THEN st.acc
                          ELSE SaturatingMul(st.acc, Len(ListOf(p, Unwrap(r.item)))),
                  ended |-> IsNone(r.item)],
                 k - 1)

RECURSIVE FoldDrain(_, _)
\* The fold run to the end of the Lists, sixteen items at a time.
FoldDrain(p, st) == IF st.ended THEN st ELSE FoldDrain(p, FoldSaturatingMul(p, st, 16))

CardinalityOfFold(p, n) ==
    FoldDrain(p, [word |-> n, acc |-> One, ended |-> FALSE]).acc

\* Petnames::cardinality: fold1 takes the first length as the accumulator
\* and folds the rest into it; without a first item the result is 0.
CardinalityOf(p, n) ==
    LET first == ListsNext(n)
    IN  IF IsNone(first.item) THEN Zero
        ELSE FoldDrain(p, [word |-> first.word,
                           acc |-> NatToBig(Len(ListOf(p, Unwrap(first.item)))),
                           ended |-> FALSE]).acc

\* Whether cardinality panics: map, the saturating fold and unwrap_or cannot;
\* what is left is consuming the Lists.
CardinalityPanics(n) == ListsPanics(n)

\* --------------------------------------------------------------- strings
RECURSIVE Concat(_)
\* collect::<String>() of a sequence of string pieces.
Concat(pieces) ==
    IF Len(pieces) = 0 THEN << >> ELSE Head(pieces) \o Concat(Tail(pieces))

RECURSIVE IntersperseTrailing(_, _)
IntersperseTrailing(ws, sep) ==
    IF Len(ws) = 0 THEN ws
    ELSE << Head(ws), sep >> \o IntersperseTrailing(Tail(ws), sep)

RECURSIVE Intersperse(_, _)
\* itertools intersperse: the separator between each two adjacent items.
Intersperse(ws, sep) ==
    IF Len(ws) <= 1 THEN ws
    ELSE << Head(ws), sep >> \o Intersperse(Tail(ws), sep)

\* ----------------------------------------------------------------- generate
\* SliceRandom::choose: None for an empty list, else any of its elements.
Choose(list) ==
    IF Len(list) = 0 THEN { None } ELSE { Some(list[i]) : i \in 1..Len(list) }

RECURSIVE AllChoices(_)
AllChoices(lists) ==
    IF Len(lists) = 0 THEN { << >> }
    ELSE { << c >> \o t : c \in Choose(Head(lists)), t \in AllChoices(Tail(lists)) }

\* filter_map over the draws: the None draws are dropped.
FilterMap(draws) ==
    LET kept == SelectSeq(draws, IsSome)
    IN  [i \in 1..Len(kept) |-> Unwrap(kept[i])]

\* Petnames::generate for the given draws.
GenerateOf(draws, sep) == Concat(Intersperse(FilterMap(draws), sep))

\* Whether generate panics for the given draws: a None draw is dropped by
\* filter_map, never unwrapped; what is left is consuming the Lists.
GeneratePanicsUnwrap(draws, n) ==
    ListsPanics(n) \/ \E i \in 1..Len(draws) : IsNone(draws[i])
GeneratePanics(draws, n) == ListsPanics(n)

\* Names::next for the given draws.
NamesNextOfEnding(draws, sep) ==
    IF Len(FilterMap(draws)) = 0 THEN None ELSE Some(GenerateOf(draws, sep))
NamesNextOf(draws, sep) == Some(GenerateOf(draws, sep))

\* The lists Lists(p, n) yields, as values.
RoleLists(p, n) ==
    LET ls == ListsCollect(n) IN [i \in 1..Len(ls) |-> ListOf(p, ls[i])]

\* ------------------------------------------------------------ NamesProduct
\* list.shuffle(rng): any order of the list's elements.
Shuffles(list) ==
    { [i \in 1..Len(list) |-> list[f[i]]] : f \in Permutations(1..Len(list)) }

\* One position of NamesProduct::iters: the shuffled list with the cycle
\* marker pushed last, a Cycle over it (pos is the index the inner iterator
\* yields next, Len(list) + 1 when it is spent), and the cached word.
PositionOverwriting(shuffled) ==
    [ list |-> [i \in 1..Len(shuffled) |->
                  IF i < Len(shuffled) THEN Some(shuffled[i]) ELSE None],
      pos |-> 1,
      word |-> None ]
Position(shuffled) ==
    [ list |-> [i \in 1..(Len(shuffled) + 1) |->
                  IF i <= Len(shuffled) THEN Some(shuffled[i]) ELSE None],
      pos |-> 1,
      word |-> None ]

RECURSIVE ItersFor(_)
\* Every sequence of positions that shuffling the given lists can give.
ItersFor(lists) ==
    IF Len(lists) = 0 THEN { << >> }
    ELSE { << Position(sh) >> \o t :
             sh \in Shuffles(Head(lists)), t \in ItersFor(Tail(lists)) }

NonEmptyList(list) == Len(list) > 0

\* The `iters` field set by NamesProduct::shuffled: one position per list.
AllItersSkippingEmpty(lists) == ItersFor(SelectSeq(lists, NonEmptyList))
AllIters(lists) == ItersFor(lists)

RECURSIVE FoldCheckedMul(_, _)
FoldCheckedMul(acc, lists) ==
    IF Len(lists) = 0 THEN acc
    ELSE FoldCheckedMul(
             IF IsNone(acc) THEN None ELSE CheckedMul(Unwrap(acc), Len(Head(lists))),
             Tail(lists))

RECURSIVE FoldCheckedMulWide(_, _)
\* The same fold over any number of lists, sixteen lists at a time.
FoldCheckedMulWide(acc, lists) ==
    IF Len(lists) <= 16 THEN FoldCheckedMul(acc, lists)
    ELSE LET part == FoldCheckedMul(acc, SubSeq(lists, 1, 16))
         IN  IF Len(part) >= 0
             THEN FoldCheckedMulWide(part, SubSeq(lists, 17, Len(lists)))
             ELSE part

\* The `size` field set by NamesProduct::shuffled.
SizeOf(lists) ==
    IF Len(lists) = 0 THEN Some(Zero) ELSE FoldCheckedMulWide(Some(One), lists)

\* Cycle::next: the item (None only for an empty underlying list) and the
\* position afterwards.
CycleNextRepeating(it) ==
    IF it.pos <= Len(it.list)
    THEN [item |-> Some(it.list[it.pos]), it |-> [it EXCEPT !.pos = it.pos + 1]]
    ELSE IF Len(it.list) = 0
         THEN [item |-> None, it |-> [it EXCEPT !.pos = 1]]
         ELSE [item |-> Some(it.list[1]), it |-> [it EXCEPT !.pos = 1]]
CycleNext(it) ==
    IF it.pos <= Len(it.list)
    THEN [item |-> Some(it.list[it.pos]), it |-> [it EXCEPT !.pos = it.pos + 1]]
    ELSE IF Len(it.list) = 0
         THEN [item |-> None, it |-> [it EXCEPT !.pos = 1]]
         ELSE [item |-> Some(it.list[1]), it |-> [it EXCEPT !.pos = 2]]

RECURSIVE NextLoopNoCarry(_, _, _)
NextLoopNoCarry(its, i, bump) ==
    IF i > Len(its) THEN [returned |-> FALSE, iters |-> its, bump |-> bump]
    ELSE IF ~(bump \/ IsNone(its[i].word)) THEN NextLoopNoCarry(its, i + 1, bump)
    ELSE
      LET d1 == CycleNext(its[i]) IN
      IF IsNone(d1.item)
      THEN [returned |-> TRUE, iters |-> [its EXCEPT ![i] = d1.it], bump |-> bump]
      ELSE IF IsNone(Unwrap(d1.item))
      THEN
        LET d2 == CycleNext(d1.it) IN
        IF IsNone(d2.item) \/ IsNone(Unwrap(d2.item))
        THEN [returned |-> TRUE, iters |-> [its EXCEPT ![i] = d2.it], bump |-> bump]
        ELSE NextLoopNoCarry([its EXCEPT ![i] = [d2.it EXCEPT !.word = Unwrap(d2.item)]],
                             i + 1, FALSE)
      ELSE NextLoopNoCarry([its EXCEPT ![i] = [d1.it EXCEPT !.word = Unwrap(d1.item)]],
                           i + 1, FALSE)

RECURSIVE NextLoop(_, _, _)
\* The for loop of NamesProduct::next from position i on.  returned is TRUE
\* when the loop left the function with `return None`.
NextLoop(its, i, bump) ==
    IF i > Len(its) THEN [returned |-> FALSE, iters |-> its, bump |-> bump]
    ELSE IF ~(bump \/ IsNone(its[i].word)) THEN NextLoop(its, i + 1, bump)
    ELSE
      LET d1 == CycleNext(its[i]) IN
      IF IsNone(d1.item)
      THEN [returned |-> TRUE, iters |-> [its EXCEPT ![i] = d1.it], bump |-> bump]
      ELSE IF IsNone(Unwrap(d1.item))
      THEN \* the cycle end marker
        LET d2 == CycleNext(d1.it) IN
        IF IsNone(d2.item) \/ IsNone(Unwrap(d2.item))
        THEN [returned |-> TRUE, iters |-> [its EXCEPT ![i] = d2.it], bump |-> bump]
        ELSE NextLoop([its EXCEPT ![i] = [d2.it EXCEPT !.word = Unwrap(d2.item)]],
                      i + 1, TRUE)
      ELSE NextLoop([its EXCEPT ![i] = [d1.it EXCEPT !.word = Unwrap(d1.item)]],
                    i + 1, FALSE)

RECURSIVE AssembleLeading(_, _, _)
AssembleLeading(acc, ws, sep) ==
    IF Len(ws) = 0 THEN acc
    ELSE IF IsSome(acc) /\ IsSome(Head(ws))
         THEN AssembleLeading(Some(Unwrap(acc) \o sep \o Unwrap(Head(ws))), Tail(ws), sep)
         ELSE AssembleLeading(None, Tail(ws), sep)

RECURSIVE Assemble(_, _, _)
\* The fold that builds the name from the cached words, from accumulator acc.
Assemble(acc, ws, sep) ==
    IF Len(ws) = 0 THEN acc
    ELSE IF IsSome(acc) /\ IsSome(Head(ws))
         THEN IF Len(Unwrap(acc)) = 0
              THEN Assemble(Some(Unwrap(acc) \o Unwrap(Head(ws))), Tail(ws), sep)
              ELSE Assemble(Some(Unwrap(acc) \o sep \o Unwrap(Head(ws))), Tail(ws), sep)
         ELSE Assemble(None, Tail(ws), sep)

RECURSIVE Dec(_)
\* a - 1 for a wide integer a > 0.
Dec(a) ==
    IF a[1] > 0
    THEN IF Len(a) = 1 /\ a[1] = 1 THEN Zero ELSE << a[1] - 1 >> \o Tail(a)
    ELSE << Base - 1 >> \o Dec(Tail(a))

\* usize::saturating_sub(a, 1).
SaturatingDecForgotten(a) == a
SaturatingDec(a) == IF a = Zero THEN Zero ELSE Dec(a)

CachedWords(its) == [i \in 1..Len(its) |-> its[i].word]

NamesProductNextEmptyJoin(its, sz, sep) ==
    LET l == NextLoop(its, 1, Len(its) > 0) IN
    IF l.returned \/ l.bump
    THEN [item |-> None, iters |-> l.iters, size |-> sz]
    ELSE [item |-> Assemble(Some(<< >>), CachedWords(l.iters), sep),
          iters |-> l.iters,
          size |-> IF IsNone(sz) THEN None ELSE Some(SaturatingDec(Unwrap(sz)))]

\* NamesProduct::next: the item returned and the fields afterwards.
NamesProductNextOf(its, sz, sep) ==
    LET l == NextLoop(its, 1, TRUE) IN
    IF l.returned \/ l.bump
    THEN [item |-> None, iters |-> l.iters, size |-> sz]
    ELSE [item |-> Assemble(Some(<< >>), CachedWords(l.iters), sep),
          iters |-> l.iters,
          size |-> IF IsNone(sz) THEN None ELSE Some(SaturatingDec(Unwrap(sz)))]

\* The lengths of the words of a list.
LengthsOf(list) == [i \in 1..Len(list) |-> NatToBig(Len(list[i]))]

RECURSIVE MaxLength(_)
\* words.iter().map(|word| word.len()).max(): None for an empty list.
MaxLength(lens) ==
    IF Len(lens) = 0 THEN None
    ELSE LET rest == MaxLength(Tail(lens))
         IN  IF IsNone(rest) \/ Leq(Unwrap(rest), Head(lens))
             THEN Some(Head(lens)) ELSE rest

RECURSIVE FoldSaturatingAdd(_, _, _)
\* filter_map(max).fold(sum, saturating_add) over lists of word lengths.
FoldSaturatingAdd(sum, lists, bits) ==
    IF Len(lists) = 0 THEN sum
    ELSE LET m == MaxLength(Head(lists))
         IN  FoldSaturatingAdd(
                 IF IsNone(m) THEN sum ELSE UsizeSaturatingAdd(sum, Unwrap(m), bits),
                 Tail(lists), bits)

\* NamesProduct::capacity for lists of word lengths and a separator length,
\* on a target whose usize is bits wide.  The `+` between the two terms is
\* unchecked: when it overflows, a build with overflow checks panics and a
\* build without them wraps.
CapacityOutcomes(lists, seplen, bits) ==
    LET sum == FoldSaturatingAdd(Zero, lists, bits)
        seps == UsizeSaturatingMul(
                    seplen, IF Len(lists) = 0 THEN 0 ELSE Len(lists) - 1, bits)
        total == Add(sum, seps)
        rounded(t) == LET p == CheckedNextPowerOfTwo(t, bits)
                      IN  IF IsNone(p) THEN Zero ELSE Unwrap(p)
    IN  IF Fits(total, bits)
        THEN { [panic |-> FALSE, value |-> rounded(total)] }
        ELSE { [panic |-> TRUE, value |-> Zero],
               [panic |-> FALSE, value |-> rounded(Wrapped(total, bits))] }

\* NamesProduct::shuffled: the NamesProducts it can return, one for each way
\* the shuffles can come out, each with whether building it panicked.
ShuffledOutcomes(lists, sep) ==
    LET lens == [i \in 1..Len(lists) |-> LengthsOf(lists[i])]
        seplen == NatToBig(Len(sep))
    IN  { [ iters |-> its,
            size |-> SizeOf(lists),
            capacity_of |-> Some([lists |-> lens, separator |-> seplen,
                                  bits |-> UsizeBits]),
            capacity |-> c.value,
            panic |-> c.panic ] :
          its \in AllIters(lists),
          c \in CapacityOutcomes(lens, seplen, UsizeBits) }

\* NamesProduct::size_hint: the lower bound and the upper bound.
SizeHint(sz) == << IF IsNone(sz) THEN Zero ELSE Unwrap(sz), sz >>

\* ------------------------------------------------------------------ states
InitPetnames ==
    /\ adjectives \in Prefixes(AdjectiveWords) \cup { Doubled(AdjectiveWords) }
    /\ adverbs \in Prefixes(AdverbWords) \cup { Doubled(AdverbWords) }
    /\ names \in Prefixes(NameWords) \cup { Doubled(NameWords) }

\* The lists with no word repeated.
InitPrefixes ==
    /\ adjectives \in Prefixes(AdjectiveWords)
    /\ adverbs \in Prefixes(AdverbWords)
    /\ names \in Prefixes(NameWords)

InitRest ==
    /\ pc = "idle"
    /\ words = 0
    /\ separator = << >>
    /\ card = Zero
    /\ lists_word = 0
    /\ roles = << >>
    /\ lists_item = None
    /\ iters = << >>
    /\ size = None
    /\ item = None
    /\ generated = << >>
    /\ picked = << >>
    /\ yielded = << >>
    /\ ended = FALSE
    /\ after = << >>
    /\ panicked = FALSE
    /\ applied = << >>
    /\ capacity_of = None
    /\ capacity = Zero
    /\ opts = None
    /\ letter = None
    /\ stdout = << >>
    /\ error = None
    /\ exit_status = None

Init == InitPetnames /\ InitRest

\* petnames.generate(rng, n, sep)
Generate(n, sep) ==
    /\ pc = "idle"
    /\ \E draws \in AllChoices(RoleLists(petnames, n)) :
         /\ picked' = draws
         /\ generated' = GenerateOf(draws, sep)
         /\ panicked' = GeneratePanics(draws, n)
    /\ pc' = "generated"
    /\ words' = n
    /\ separator' = sep
    /\ UNCHANGED << adjectives, adverbs, names, card, lists_word, roles,
                    lists_item, iters, size, item, yielded, ended, after,
                    applied >>
    /\ UNCHANGED << capacity_vars, cli_vars >>

\* petnames.iter(rng, n, sep): the Names only stores its arguments.
Iter(n, sep) ==
    /\ pc = "idle"
    /\ Cardinality(AllChoices(RoleLists(petnames, n))) <= MaxRun
    /\ pc' = "names"
    /\ words' = n
    /\ separator' = sep
    /\ UNCHANGED << adjectives, adverbs, names, card, lists_word, roles,
                    lists_item, iters, size, item, generated, picked, yielded,
                    ended, after, panicked, applied >>
    /\ UNCHANGED << capacity_vars, cli_vars >>

\* One request on the Names.
NamesNext ==
    /\ pc = "names"
    /\ ~panicked
    /\ ~ended
    /\ Len(yielded) < MaxRequests
    /\ \E draws \in AllChoices(RoleLists(petnames, words)) :
         LET r == NamesNextOf(draws, separator) IN
           /\ item' = r
           /\ ended' = IsNone(r)
           /\ yielded' = IF IsNone(r) THEN yielded
                          ELSE Append(yielded, [name |-> Unwrap(r), tuple |-> draws])
           /\ panicked' = GeneratePanics(draws, words)
    /\ UNCHANGED << adjectives, adverbs, names, pc, words, separator, card,
                    lists_word, roles, lists_item, iters, size, generated,
                    picked, after, applied >>
    /\ UNCHANGED << capacity_vars, cli_vars >>

RECURSIVE RunLength(_)
\* The number of combinations of the given lists.
RunLength(lists) ==
    IF Len(lists) = 0 THEN 1 ELSE Len(Head(lists)) * RunLength(Tail(lists))

\* petnames.iter_non_repeating(rng, n, sep)
IterNonRepeating(n, sep) ==
    /\ pc = "idle"
    /\ LET lists == RoleLists(petnames, n) IN
         /\ RunLength(lists) <= MaxRun
         /\ \E np \in ShuffledOutcomes(lists, sep) :
              /\ iters' = np.iters
              /\ size' = np.size
              /\ capacity_of' = np.capacity_of
              /\ capacity' = np.capacity
              /\ panicked' = (ListsPanics(n) \/ np.panic)
    /\ pc' = "product"
    /\ words' = n
    /\ separator' = sep
    /\ UNCHANGED << adjectives, adverbs, names, card, lists_word, roles,
                    lists_item, item, generated, picked, yielded, ended, after,
                    applied >>
    /\ UNCHANGED cli_vars

\* One request on the NamesProduct.
NamesProductNext ==
    /\ pc = "product"
    /\ ~panicked
    /\ Len(after) < MaxAfterEnd
    /\ LET r == NamesProductNextOf(iters, size, separator) IN
         /\ item' = r.item
         /\ iters' = r.iters
         /\ size' = r.size
         /\ IF ended
            THEN /\ after' = Append(after, r.item)
                 /\ UNCHANGED << yielded, ended >>
            ELSE /\ ended' = IsNone(r.item)
                 /\ yielded' = IF IsNone(r.item) THEN yielded
                                ELSE Append(yielded,
                                            [name |-> Unwrap(r.item),
                                             tuple |-> CachedWords(r.iters)])
                 /\ UNCHANGED after
    /\ UNCHANGED << adjectives, adverbs, names, pc, words, separator, card,
                    lists_word, roles, lists_item, generated, picked, panicked,
                    applied >>
    /\ UNCHANGED << capacity_vars, cli_vars >>

Next ==
    \/ \E n \in 0..MaxWords, sep \in Separators : Generate(n, sep)
    \/ \E n \in 0..MaxWords, sep \in Separators : Iter(n, sep)
    \/ NamesNext
    \/ \E n \in 0..MaxWords, sep \in Separators : IterNonRepeating(n, sep)
    \/ NamesProductNext

Spec == Init /\ [][Next]_vars

\* ------------------------------------------- the pure functions, for any u8
\* petnames.cardinality(n)
CardinalityCall(n) ==
    /\ pc = "idle"
    /\ card' = CardinalityOf(petnames, n)
    /\ panicked' = CardinalityPanics(n)
    /\ pc' = "cardinality"
    /\ words' = n
    /\ UNCHANGED << adjectives, adverbs, names, separator, lists_word, roles,
                    lists_item, iters, size, item, generated, picked, yielded,
                    ended, after, applied >>
    /\ UNCHANGED << capacity_vars, cli_vars >>

\* Lists(petnames, n) consumed up to its first None, as collect() does.
CollectLists(n) ==
    /\ pc = "idle"
    /\ roles' = ListsCollect(n)
    /\ lists_word' = ListsDrain(ListsOf(n)).word
    /\ lists_item' = None
    /\ panicked' = ListsPanics(n)
    /\ pc' = "lists"
    /\ words' = n
    /\ UNCHANGED << adjectives, adverbs, names, separator, card, iters, size,
                    item, generated, picked, yielded, ended, after, applied >>
    /\ UNCHANGED << capacity_vars, cli_vars >>

\* One more request on a Lists that has ended.
ListsNextAgain ==
    /\ pc \in { "lists", "lists_again" }
    /\ ~panicked
    /\ panicked' = ListsNextPanics(lists_word)
    /\ LET r == ListsNext(lists_word) IN
         /\ lists_item' = r.item
         /\ lists_word' = r.word
         /\ roles' = IF IsNone(r.item) THEN roles ELSE Append(roles, Unwrap(r.item))
    /\ pc' = "lists_again"
    /\ UNCHANGED << adjectives, adverbs, names, words, separator, card, iters,
                    size, item, generated, picked, yielded, ended, after,
                    applied >>
    /\ UNCHANGED << capacity_vars, cli_vars >>

NextCard ==
    \/ \E n \in 0..U8Max : CardinalityCall(n)
    \/ \E n \in 0..U8Max : CollectLists(n)
    \/ ListsNextAgain

InitCard == InitPrefixes /\ InitRest

SpecCard == InitCard /\ [][NextCard]_vars

\* -------------------------------------------------- the size, for any u8
\* The `size` field that NamesProduct::shuffled computes for the lists of
\* iter_non_repeating(rng, n, sep).
SizeCall(n) ==
    /\ pc = "idle"
    /\ size' = SizeOf(RoleLists(petnames, n))
    /\ panicked' = ListsPanics(n)
    /\ pc' = "sized"
    /\ words' = n
    /\ UNCHANGED << adjectives, adverbs, names, separator, card, lists_word,
                    roles, lists_item, iters, item, generated, picked, yielded,
                    ended, after, applied >>
    /\ UNCHANGED << capacity_vars, cli_vars >>

NextSize == \E n \in 0..U8Max : SizeCall(n)

SpecSize == InitCard /\ [][NextSize]_vars

\* ------------------------------------------- the capacity, for long strings
\* The usize widths of the targets.
TargetWidths == { 32, 64 }

\* 2^(bits - 2): the length of a str that takes a quarter of the address
\* space, below the isize::MAX that bounds every str.
Huge(bits) == [i \in 1..(bits \div 16) |-> IF i = bits \div 16 THEN 2 ^ 14 ELSE 0]

\* The lists of word lengths and the separator lengths that capacity is
\* given.
LengthLists(bits) == { << >>, << One, NatToBig(3) >>, << Huge(bits) >> }
SeparatorLengths(bits) == { Zero, One, Huge(bits) }

\* NamesProduct::capacity(lists, separator) for the n lists of a petname of n
\* words.
CapacityCall(bits, n, lens, seplen) ==
    /\ pc = "idle"
    /\ capacity_of' = Some([lists |-> RoleLists(lens, n),
                            separator |-> seplen,
                            bits |-> bits])
    /\ \E c \in CapacityOutcomes(RoleLists(lens, n), seplen, bits) :
         /\ capacity' = c.value
         /\ panicked' = c.panic
    /\ pc' = "capacity"
    /\ words' = n
    /\ UNCHANGED << adjectives, adverbs, names, separator, card, lists_word,
                    roles, lists_item, iters, size, item, generated, picked,
                    yielded, ended, after, applied >>
    /\ UNCHANGED cli_vars

NextCapacity ==
    \E bits \in TargetWidths, n \in 0..MaxPositions :
      \E lens \in [adjectives : LengthLists(bits), adverbs : LengthLists(bits),
                    names : LengthLists(bits)],
         seplen \in SeparatorLengths(bits) :
        CapacityCall(bits, n, lens, seplen)

InitCapacity ==
    /\ adjectives = << >>
    /\ adverbs = << >>
    /\ names = << >>
    /\ InitRest

SpecCapacity == InitCapacity /\ [][NextCapacity]_vars

\* ------------------------------------------------------------------ retain
\* petnames.retain(p), at most twice on one Petnames.
Retain(p) ==
    /\ pc \in { "idle", "retained" }
    /\ Len(applied) < 2
    /\ LET r == RetainOf(petnames, p) IN
         /\ adjectives' = r.adjectives
         /\ adverbs' = r.adverbs
         /\ names' = r.names
    /\ applied' = Append(applied, p)
    /\ pc' = "retained"
    /\ UNCHANGED << words, separator, card, lists_word, roles, lists_item,
                    iters, size, item, generated, picked, yielded, ended,
                    after, panicked >>
    /\ UNCHANGED << capacity_vars, cli_vars >>

NextRetain == \E p \in Predicates : Retain(p)

SpecRetain == Init /\ [][NextRetain]_vars

\* ------------------------------------------------- the command-line run
\* The options of a run: alliterate is opt_alliterate, which --alliterate-with
\* turns on as well; --stream conflicts with --count.
AlliterateLetters == { "a", "b" }
CommandLines ==
    { o \in [ words : 0..MaxWords,
              separator : Separators,
              letters : 0..MaxLetters,
              alliterate : BOOLEAN,
              alliterate_with : { None } \cup { Some(c) : c \in AlliterateLetters },
              non_repeating : BOOLEAN,
              count : 0..MaxCount,
              stream : BOOLEAN ] :
        /\ IsSome(o.alliterate_with) => o.alliterate
        /\ o.stream => o.count = 1 }

\* What run returns before it reaches the printer, with the letter chosen and
\* the lists as it leaves them.
RunFailed(e, pn) == [error |-> Some(e), letter |-> None, petnames |-> pn]
RunAlliterated(c, pn) ==
    [error |-> None, letter |-> Some(c), petnames |-> RetainOf(pn, StartsWith(c))]

\* The alliteration of run, with the letter taken from the adjectives alone.
AlliterationOutcomesAdjectivesOnly(pn, o) ==
    LET firsts == FirstLetters(pn.adjectives) IN
    IF IsSome(o.alliterate_with)
    THEN IF Unwrap(o.alliterate_with) \in firsts
         THEN { RunAlliterated(Unwrap(o.alliterate_with), pn) }
         ELSE { RunFailed("Alliteration", pn) }
    ELSE IF firsts = { }
         THEN { RunFailed("Alliteration", pn) }
         ELSE { RunAlliterated(c, pn) : c \in firsts }

\* The alliteration of run: firsts.iter().choose(rng) is any letter of firsts.
AlliterationOutcomes(pn, o) ==
    LET firsts == CommonFirstLetters(pn.adjectives, << pn.adverbs, pn.names >>) IN
    IF IsSome(o.alliterate_with)
    THEN IF Unwrap(o.alliterate_with) \in firsts
         THEN { RunAlliterated(Unwrap(o.alliterate_with), pn) }
         ELSE { RunFailed("Alliteration", pn) }
    ELSE IF firsts = { }
         THEN { RunFailed("Alliteration", pn) }
         ELSE { RunAlliterated(c, pn) : c \in firsts }

\* run without its cardinality check.
RunOutcomesUnchecked(pn, o) ==
    LET filtered == IF o.letters # 0 THEN RetainOf(pn, LettersPredicate(o.letters))
                    ELSE pn
    IN  IF o.alliterate
        THEN AlliterationOutcomes(filtered, o)
        ELSE { [error |-> None, letter |-> None, petnames |-> filtered] }

\* run from the loaded lists to the printer.
RunOutcomes(pn, o) ==
    LET filtered == IF o.letters # 0 THEN RetainOf(pn, LettersPredicate(o.letters))
                    ELSE pn
    IN  IF CardinalityOf(filtered, o.words) = Zero
        THEN { RunFailed("Cardinality", filtered) }
        ELSE IF o.alliterate
        THEN AlliterationOutcomes(filtered, o)
        ELSE { [error |-> None, letter |-> None, petnames |-> filtered] }

\* The status main exits with for the result of run.
MainExit(e) == IF IsNone(e) \/ e = Some("Disconnected") THEN 0 ELSE 1

\* What writeln! can return.
WriteOutcomes == { "ok", "broken_pipe", "other" }

\* run up to the call of printer, on the lists of a directory that was read
\* or on built-in lists.
Run(o) ==
    /\ pc = "idle"
    /\ opts' = Some(o)
    /\ words' = o.words
    /\ separator' = o.separator
    /\ \E r \in RunOutcomes(petnames, o) :
         /\ adjectives' = r.petnames.adjectives
         /\ adverbs' = r.petnames.adverbs
         /\ names' = r.petnames.names
         /\ letter' = r.letter
         /\ IF IsSome(r.error)
            THEN /\ pc' = "failed"
                 /\ error' = r.error
                 /\ exit_status' = Some(MainExit(r.error))
                 /\ UNCHANGED << iters, size, capacity_vars, panicked >>
            ELSE /\ pc' = "printing"
                 /\ UNCHANGED << error, exit_status >>
                 /\ LET lists == RoleLists(r.petnames, o.words) IN
                      IF o.non_repeating
                      THEN /\ RunLength(lists) <= MaxRun
                           /\ \E np \in ShuffledOutcomes(lists, o.separator) :
                                /\ iters' = np.iters
                                /\ size' = np.size
                                /\ capacity_of' = np.capacity_of
                                /\ capacity' = np.capacity
                                /\ panicked' = (ListsPanics(o.words) \/ np.panic)
                      ELSE /\ Cardinality(AllChoices(lists)) <= MaxRun
                           /\ UNCHANGED << iters, size, capacity_vars, panicked >>
    /\ UNCHANGED << card, lists_word, roles, lists_item, item, generated, picked,
                    yielded, ended, after, applied, stdout >>

\* run with --dir naming a directory whose files cannot be read: no list is
\* made.
RunUnreadable(o) ==
    /\ pc = "idle"
    /\ adjectives = << >> /\ adverbs = << >> /\ names = << >>
    /\ opts' = Some(o)
    /\ pc' = "failed"
    /\ error' = Some("FileIo")
    /\ exit_status' = Some(MainExit(Some("FileIo")))
    /\ UNCHANGED << adjectives, adverbs, names, words, separator, card,
                    lists_word, roles, lists_item, iters, size, item, generated,
                    picked, yielded, ended, after, panicked, applied,
                    capacity_vars, letter, stdout >>

\* Leaving printer, and main after it.
PrinterReturns(e) ==
    /\ pc' = "printed"
    /\ error' = e
    /\ exit_status' = Some(MainExit(e))

\* One turn of the loop of printer: the next name is asked for and written.
PrinterNext ==
    /\ pc = "printing"
    /\ ~panicked
    /\ LET o == Unwrap(opts)
           count == IF o.stream \/ o.count = 0 THEN None ELSE Some(o.count)
           written(r, its, sz, tuple) ==
               /\ item' = r
               /\ iters' = its
               /\ size' = sz
               /\ IF IsNone(r)
                  THEN /\ ended' = TRUE
                       /\ PrinterReturns(None)
                       /\ UNCHANGED << yielded, stdout >>
                  ELSE /\ yielded' = Append(yielded, [name |-> Unwrap(r), tuple |-> tuple])
                       /\ UNCHANGED ended
                       /\ \E w \in WriteOutcomes :
                            IF w = "ok"
                            THEN /\ stdout' = Append(stdout, Unwrap(r))
                                 /\ UNCHANGED << pc, error, exit_status >>
                            ELSE /\ PrinterReturns(IF w = "broken_pipe" /\ IsNone(count)
                                                   THEN Some("Disconnected")
                                                   ELSE Some("Io"))
                                 /\ UNCHANGED stdout
       IN  IF IsSome(count) /\ Len(stdout) >= Unwrap(count)
           THEN /\ PrinterReturns(None)
                /\ UNCHANGED << item, iters, size, yielded, ended, stdout, panicked >>
           ELSE IF o.non_repeating
           THEN /\ LET r == NamesProductNextOf(iters, size, separator) IN
                     written(r.item, r.iters, r.size, CachedWords(r.iters))
                /\ UNCHANGED panicked
           ELSE /\ IsNone(count) => Len(stdout) < MaxRequests
                /\ \E draws \in AllChoices(RoleLists(petnames, words)) :
                     /\ written(NamesNextOf(draws, separator), iters, size, draws)
                     /\ panicked' = GeneratePanics(draws, words)
    /\ UNCHANGED << adjectives, adverbs, names, words, separator, card,
                    lists_word, roles, lists_item, generated, picked, after,
                    applied, capacity_vars, opts, letter >>

NextRun ==
    \/ pc = "idle" /\ \E o \in CommandLines : Run(o)
    \/ pc = "idle" /\ \E o \in CommandLines : RunUnreadable(o)
    \/ PrinterNext

SpecRun == Init /\ [][NextRun]_vars

\* ------------------------------------------------ every operation of the core
NextCore ==
    \/ Next
    \/ \E n \in 0..U8Max : CardinalityCall(n)

SpecCore == InitCard /\ [][NextCore]_vars

\* ============================================================== properties
\* What the properties are stated with, defined apart from the operators above.

\* The list at position i (from 1) of a petname of n words.
RoleAt(n, i) ==
    IF i = n THEN "names" ELSE IF i = n - 1 THEN "adjectives" ELSE "adverbs"

RoleSequence(n) == [i \in 1..n |-> RoleAt(n, i)]

RoleListAt(n, i) ==
    IF i = n THEN names ELSE IF i = n - 1 THEN adjectives ELSE adverbs

\* Some list that a petname of n words draws from is empty.
ReferencedEmpty(n) ==
    \/ n >= 1 /\ Len(names) = 0
    \/ n >= 2 /\ Len(adjectives) = 0
    \/ n >= 3 /\ Len(adverbs) = 0

DupFree(list) == \A i, j \in 1..Len(list) : i # j => list[i] # list[j]

ReferencedDupFree(n) == \A i \in 1..n : DupFree(RoleListAt(n, i))

Elements(list) == { list[i] : i \in 1..Len(list) }

\* The cartesian product of the lists of a petname of n words.
Combinations(n) ==
    { t \in [1..n -> Elements(adjectives) \cup Elements(adverbs) \cup Elements(names)] :
        \A i \in 1..n : t[i] \in Elements(RoleListAt(n, i)) }

\* The words of a yielded record.
WordsOf(tuple) == [i \in 1..Len(tuple) |-> Unwrap(tuple[i])]

YieldedTuples == { yielded[i].tuple : i \in 1..Len(yielded) }

RECURSIVE Joined(_, _)
\* ws[1] sep ws[2] sep ... ws[k], built from the right.
Joined(ws, sep) ==
    IF Len(ws) = 0 THEN << >>
    ELSE IF Len(ws) = 1 THEN ws[1]
    ELSE Joined(SubSeq(ws, 1, Len(ws) - 1), sep) \o sep \o ws[Len(ws)]

\* Requests made so far on the NamesProduct.
Requests == Len(yielded) + (IF ended THEN 1 ELSE 0) + Len(after)

\* A wide integer below 2^16 as a number.
Small(a) == IF Len(a) = 0 THEN 0 ELSE a[1]

RECURSIVE TimesPower(_, _, _)
\* x * k^e, exact, for e <= 16.
TimesPower(x, k, e) == IF e = 0 THEN x ELSE TimesPower(MulSmall(x, k), k, e - 1)

RECURSIVE TimesPowerWide(_, _, _)
\* x * k^e, exact, for any e.
TimesPowerWide(x, k, e) ==
    IF e = 0 THEN x
    ELSE LET c == Min(e, 16)
             part == TimesPower(x, k, c)
         IN  IF Len(part) >= 0 THEN TimesPowerWide(part, k, e - c) ELSE part

\* len(adverbs)^max(n-2,0) * (len(adjectives) if n >= 2 else 1) * len(names)
ExactProduct(n) ==
    LET nm == NatToBig(Len(names))
        aj == IF n >= 2 THEN MulSmall(nm, Len(adjectives)) ELSE nm
    IN  TimesPowerWide(aj, Len(adverbs), IF n >= 2 THEN n - 2 ELSE 0)

\* C1: for n >= 1 and non-empty duplicate-free lists, the tuples yielded
\* before the first end-of-sequence are the whole cartesian product of the
\* lists of the role sequence.
C1_EveryCombinationYielded ==
    (pc = "product" /\ ended /\ words >= 1
       /\ ~ReferencedEmpty(words) /\ ReferencedDupFree(words))
    => { WordsOf(t) : t \in YieldedTuples } = Combinations(words)

C1_Witness ==
    /\ pc = "product" /\ ended /\ words = 3
    /\ Len(adverbs) = 2 /\ Len(adjectives) = 2 /\ Len(names) = 2
    /\ ReferencedDupFree(words)
    /\ Len(yielded) = 8

\* C2: for duplicate-free lists, the tuples of words yielded before the first
\* end-of-sequence are pairwise distinct.
C2_NoTupleTwice ==
    (pc = "product" /\ ReferencedDupFree(words))
    => \A i, j \in 1..Len(yielded) : i # j => yielded[i].tuple # yielded[j].tuple

C2_Witness ==
    /\ pc = "product" /\ ReferencedDupFree(words) /\ words = 3
    /\ Len(yielded) = 7 /\ ~ended /\ Len(adverbs) = 2

\* C3: for every n, 0 included, with an unsaturated cardinality, the number
\* of names yielded before the first end-of-sequence is cardinality(n); before
\* that end each request yields one name, so the end comes with request
\* cardinality(n) + 1.
C3_YieldsCardinalityMany ==
    (pc = "product" /\ CardinalityOf(petnames, words) # MaxOf(U128Bits))
    => /\ NatToBig(Len(yielded)) = CardinalityOf(petnames, words) \/ ~ended
       /\ Len(yielded) <= Small(CardinalityOf(petnames, words))
       /\ Len(CardinalityOf(petnames, words)) <= 1

C3_Witness ==
    /\ pc = "product" /\ ended /\ words = 3
    /\ Len(yielded) = 8 /\ CardinalityOf(petnames, words) = << 8 >>

\* C4 as stated: for n = 0 cardinality(0) is 0, yet the first request yields
\* the empty string and the second request signals end-of-sequence.
C4_EmptyNameThenEnd ==
    (pc = "product" /\ words = 0)
    => /\ CardinalityOf(petnames, 0) = Zero
       /\ Requests >= 1 => Len(yielded) = 1 /\ yielded[1].name = << >>
       /\ Requests >= 2 => ended

\* C4 as amended: for n = 0 cardinality(0) is 0 and the iterator yields no
\* name at all: its first request, and every later one, signals
\* end-of-sequence.
C4_NothingForZeroWords ==
    (pc = "product" /\ words = 0)
    => /\ CardinalityOf(petnames, 0) = Zero
       /\ yielded = << >>
       /\ Requests >= 1 => ended /\ item = None
       /\ \A i \in 1..Len(after) : after[i] = None

C4_Witness ==
    pc = "product" /\ words = 0 /\ ended /\ Len(after) >= 1 /\ Len(names) > 0

\* C5: for n >= 1 and non-empty lists, cardinality(n) is
\* len(adverbs)^max(n-2,0) * (len(adjectives) if n >= 2 else 1) * len(names)
\* when that fits 128 bits, and u128::MAX, never a wrapped value, when not.
C5_CardinalityIsSaturatedProduct ==
    (pc = "cardinality" /\ words >= 1
       /\ Len(adverbs) > 0 /\ Len(adjectives) > 0 /\ Len(names) > 0)
    => card = (IF Fits(ExactProduct(words), U128Bits)
               THEN ExactProduct(words) ELSE MaxOf(U128Bits))

C5_Witness ==
    /\ pc = "cardinality" /\ words >= 3
    /\ Len(adverbs) > 1 /\ Len(adjectives) > 0 /\ Len(names) > 0
    /\ ~Fits(ExactProduct(words), U128Bits)
    /\ card = MaxOf(U128Bits)

\* C6: cardinality(n) is 0 exactly when n = 0 or a list of the role sequence
\* is empty, also when the lists multiplied before the empty one saturated.
C6_ZeroIffDegenerate ==
    pc = "cardinality" => (card = Zero <=> (words = 0 \/ ReferencedEmpty(words)))

C6_Witness ==
    /\ pc = "cardinality" /\ card = Zero
    /\ Len(adverbs) = 2 /\ words >= 130
    /\ Len(adjectives) = 0 /\ Len(names) > 0

\* C7: for every n in 0..255 the role sequence has n entries: n - 2 times
\* adverbs, then adjectives when n >= 2, then names when n >= 1; and after
\* its end every further request yields nothing.
C7_RoleSequence ==
    pc \in { "lists", "lists_again" }
    => /\ roles = RoleSequence(words)
       /\ Len(roles) = words
       /\ lists_item = None

C7_Witness ==
    pc = "lists_again" /\ words = U8Max /\ Len(roles) = U8Max /\ roles[1] = "adverbs"

\* C8: generate joins one word of each non-empty list of the role sequence,
\* in order, with the separator between adjacent words only; the name has
\* fewer than n words exactly when a list of the role sequence is empty, and
\* is empty when all of them are or n = 0.
C8_GenerateJoinsDraws ==
    pc = "generated"
    => /\ Len(picked) = words
       /\ \A i \in 1..Len(picked) :
            IF Len(RoleListAt(words, i)) = 0 THEN picked[i] = None
            ELSE IsSome(picked[i]) /\ Unwrap(picked[i]) \in Elements(RoleListAt(words, i))
       /\ generated = Joined(WordsOf(SelectSeq(picked, IsSome)), separator)
       /\ Len(SelectSeq(picked, IsSome)) < words <=> ReferencedEmpty(words)
       /\ (\A i \in 1..words : Len(RoleListAt(words, i)) = 0) => generated = << >>

C8_Witness ==
    /\ pc = "generated" /\ words = 3 /\ separator = <<"-">>
    /\ Len(adverbs) = 0 /\ Len(adjectives) = 2 /\ Len(names) = 2
    /\ Len(SelectSeq(picked, IsSome)) = 2

\* C9: every name the NamesProduct yields for n >= 1 has n words, the i-th
\* from the i-th list of the role sequence, joined in that order by the
\* separator; no position is unset or holds the cycle marker.
C9_YieldedNameIsJoinOfRoles ==
    (pc = "product" /\ words >= 1 /\ IsSome(item))
    => /\ Len(iters) = words
       /\ \A i \in 1..Len(iters) :
            /\ IsSome(iters[i].word)
            /\ Unwrap(iters[i].word) \in Elements(RoleListAt(words, i))
       /\ Unwrap(item) = Joined(WordsOf(CachedWords(iters)), separator)

C9_Witness ==
    /\ pc = "product" /\ words = 3 /\ IsSome(item) /\ separator = <<"-">>
    /\ Len(yielded) >= 5

\* C10: when a list of the role sequence is empty, the NamesProduct yields
\* nothing: the first request, and every later one, signals end-of-sequence.
C10_NothingWhenAListIsEmpty ==
    (pc = "product" /\ ReferencedEmpty(words))
    => /\ yielded = << >>
       /\ item = None
       /\ \A i \in 1..Len(after) : after[i] = None

C10_Witness ==
    /\ pc = "product" /\ words = 3 /\ ended /\ Len(after) >= 1
    /\ Len(adverbs) = 0 /\ Len(adjectives) = 2 /\ Len(names) = 2

\* A name has been asked of a generator: generate has returned, or a request
\* has been made on an iterator.
AskedForName ==
    \/ pc = "generated"
    \/ pc = "names" /\ (Len(yielded) >= 1 \/ ended)
    \/ pc = "product" /\ Requests >= 1

\* C11: no operation of the core fails: cardinality (any n in 0..255),
\* generate, every request on the repeating iterator and every request on the
\* non-repeating iterator complete without a panic, whichever lists are
\* empty, and leave results of their types.
C11_NoOperationFails ==
    /\ ~panicked
    /\ pc = "cardinality" => Fits(card, U128Bits)
    /\ pc = "generated" => Len(picked) = words
    /\ (pc = "names" /\ Len(yielded) >= 1) => IsSome(item)
    /\ pc = "product" => (IsNone(size) \/ Fits(Unwrap(size), UsizeBits))

C11_Witness ==
    /\ pc = "cardinality" /\ words = U8Max /\ ~panicked
    /\ Len(adverbs) = MaxLen /\ Len(adjectives) = 0 /\ Len(names) = 1

\* C12: if cardinality(words) is 0 and words is not 0, the generator panics
\* when asked for a name, and returns none.
C12_PanicsOnZeroCardinality ==
    (AskedForName /\ words # 0 /\ CardinalityOf(petnames, words) = Zero)
    => panicked

\* C13: the repeating iterator never signals end-of-sequence: whatever was
\* requested before, for every n and every list contents, each request
\* yields a name, the join of one word of each non-empty list of the role
\* sequence (the empty string when there is none); a name may be yielded
\* more than once.
C13_RepeatingNeverEnds ==
    pc = "names"
    => /\ ~ended
       /\ Len(yielded) >= 1
            => IsSome(item) /\ Unwrap(item) = yielded[Len(yielded)].name
       /\ \A k \in 1..Len(yielded) :
            /\ Len(yielded[k].tuple) = words
            /\ yielded[k].name =
                 Joined(WordsOf(SelectSeq(yielded[k].tuple, IsSome)), separator)
            /\ (\A i \in 1..words : Len(RoleListAt(words, i)) = 0)
                 => yielded[k].name = << >>

C13_Witness ==
    /\ pc = "names" /\ words = 2 /\ Len(names) = 2 /\ Len(adjectives) = 2
    /\ DupFree(names) /\ DupFree(adjectives)
    /\ Len(yielded) = MaxRequests
    /\ yielded[1].name = yielded[MaxRequests].name

\* The words of a list that a predicate is true of, in the list's order.
Kept(list, p) == SelectSeq(list, LAMBDA w : w \in p)

\* C14: retain is idempotent: a second retain with the predicate of the
\* retain before it leaves all three lists as that first retain left them.
C14_RetainIdempotent ==
    [][ (pc = "retained" /\ Len(applied') = Len(applied) + 1
           /\ applied'[Len(applied')] = applied[Len(applied)])
        => (adjectives' = adjectives /\ adverbs' = adverbs /\ names' = names)
      ]_vars

C14_Witness ==
    /\ pc = "retained" /\ Len(applied) = 2 /\ applied[1] = applied[2]
    /\ applied[1] = { <<"a">> }
    /\ adjectives = << <<"a">> >> /\ adverbs = << <<"a">> >>
    /\ names = << <<"a">> >>

\* C15: retain(p) leaves in each of adjectives, adverbs and names exactly the
\* words of its previous contents that p is true of, in their previous
\* order; no word moves between lists or is added.
C15_RetainFiltersEachList ==
    [][ Len(applied') = Len(applied) + 1
        => LET p == applied'[Len(applied')] IN
             /\ adjectives' = Kept(adjectives, p)
             /\ adverbs' = Kept(adverbs, p)
             /\ names' = Kept(names, p)
             /\ Elements(adjectives') \subseteq Elements(adjectives)
             /\ Elements(adverbs') \subseteq Elements(adverbs)
             /\ Elements(names') \subseteq Elements(names)
      ]_vars

C15_Witness ==
    /\ pc = "retained" /\ Len(applied) = 1
    /\ applied[1] = { <<"a">>, <<"b", "a">> }
    /\ adjectives = << <<"a">> >> /\ adverbs = << <<"a">> >>
    /\ names = << <<"b", "a">>, <<"a">> >>

\* C16: once the NamesProduct has signalled end-of-sequence it stays
\* exhausted: every later request signals end-of-sequence too, and no
\* further name is produced.
C16_StaysExhausted ==
    pc = "product" => \A i \in 1..Len(after) : after[i] = None

\* The shuffled order of position i: the words of its list before the marker.
ShuffledAt(i) ==
    [j \in 1..(Len(iters[i].list) - 1) |-> Unwrap(iters[i].list[j])]

RECURSIVE LeftProduct(_)
\* The product of the list lengths of the positions left of position i.
LeftProduct(i) ==
    IF i <= 1 THEN 1 ELSE Len(RoleListAt(words, i - 1)) * LeftProduct(i - 1)

\* Digit i of k in the mixed radix of the list lengths, leftmost fastest.
Digit(k, i) == (k \div LeftProduct(i)) % Len(RoleListAt(words, i))

\* C17: with non-empty lists, the k-th name yielded (k from 0) has at
\* position i the word S_i[(k div (L_0 * ... * L_(i-1))) mod L_i] of that
\* position's shuffled order S_i; the first name is made of the first
\* shuffled words; and from one name to the next a position's word changes
\* only when every position to its left went from its last shuffled word
\* back to its first.
C17_MixedRadixOdometer ==
    (pc = "product" /\ words >= 1 /\ ~ReferencedEmpty(words))
    => /\ \A i \in 1..Len(iters) :
            Elements(ShuffledAt(i)) = Elements(RoleListAt(words, i))
              /\ Len(ShuffledAt(i)) = Len(RoleListAt(words, i))
       /\ \A k \in 0..(Len(yielded) - 1) : \A i \in 1..words :
            yielded[k + 1].tuple[i] = Some(ShuffledAt(i)[Digit(k, i) + 1])
       /\ Len(yielded) >= 1
            => \A i \in 1..words : yielded[1].tuple[i] = Some(ShuffledAt(i)[1])
       /\ \A k \in 1..(Len(yielded) - 1) : \A i \in 1..words :
            yielded[k + 1].tuple[i] # yielded[k].tuple[i]
            => \A j \in 1..(i - 1) :
                 /\ yielded[k].tuple[j] = Some(ShuffledAt(j)[Len(ShuffledAt(j))])
                 /\ yielded[k + 1].tuple[j] = Some(ShuffledAt(j)[1])

C17_Witness ==
    /\ pc = "product" /\ words = 3 /\ ReferencedDupFree(words)
    /\ Len(adverbs) = 2 /\ Len(adjectives) = 2 /\ Len(names) = 2
    /\ Len(yielded) = 6 /\ ~ended
    /\ yielded[5].tuple[3] # yielded[4].tuple[3]

\* The exact product of the list lengths of a petname of n words, multiplied
\* left to right (adverbs first), up to and including each kind of list.
AdverbsProduct(n) ==
    TimesPowerWide(One, Len(adverbs), IF n >= 2 THEN n - 2 ELSE 0)
AdjectivesProduct(n) ==
    IF n >= 2 THEN MulSmall(AdverbsProduct(n), Len(adjectives)) ELSE AdverbsProduct(n)
NamesProductOfLengths(n) == MulSmall(AdjectivesProduct(n), Len(names))

\* Some partial product of the list lengths, left to right, overflows usize.
PartialOverflow(n) ==
    \/ ~Fits(AdverbsProduct(n), UsizeBits)
    \/ ~Fits(AdjectivesProduct(n), UsizeBits)
    \/ ~Fits(NamesProductOfLengths(n), UsizeBits)

\* C18 as stated: the size is computed with the saturating arithmetic of
\* cardinality: 0 for an empty role sequence, the product of the list
\* lengths when it fits, usize::MAX when it overflows, and 0 whenever a list
\* is empty, also after an overflow.
C18_SizeSaturates ==
    pc = "sized"
    => size = Some(IF words = 0 \/ ReferencedEmpty(words) THEN Zero
                   ELSE IF Fits(ExactProduct(words), UsizeBits)
                        THEN ExactProduct(words)
                        ELSE MaxOf(UsizeBits))

\* C18 as amended: the size is computed with checked arithmetic: Some(0) for
\* an empty role sequence; None as soon as a partial product of the list
\* lengths, left to right, overflows usize, also when a later list is empty;
\* otherwise Some(product), which is 0 when a list is empty.
C18_SizeIsCheckedProduct ==
    pc = "sized"
    => size = (IF words = 0 THEN Some(Zero)
               ELSE IF PartialOverflow(words) THEN None
               ELSE Some(ExactProduct(words)))

C18_Witness ==
    /\ pc = "sized" /\ words >= 66 /\ size = None
    /\ Len(adverbs) = 2 /\ Len(adjectives) = 0 /\ Len(names) = 1

\* The number of names a NamesProduct over the lists of n words is to yield.
Total(n) == IF n = 0 THEN 0 ELSE Small(ExactProduct(n))

\* C19: at every point of a run of a NamesProduct with a representable
\* product of list lengths, size_hint's lower and upper bound both are the
\* number of names still to be yielded before the first end-of-sequence:
\* the product at the start (0 for an empty role sequence), one less after
\* each name, unchanged by a request that yields nothing, 0 at the end.
C19_SizeHintIsExactRemaining ==
    pc = "product"
    => /\ Len(yielded) <= Total(words)
       /\ SizeHint(size) = << NatToBig(Total(words) - Len(yielded)),
                              Some(NatToBig(Total(words) - Len(yielded))) >>
       /\ ended => SizeHint(size) = << Zero, Some(Zero) >>

C19_Witness ==
    /\ pc = "product" /\ words = 2 /\ Len(adjectives) = 2 /\ Len(names) = 2
    /\ Len(yielded) = 3 /\ ~ended
    /\ SizeHint(size) = << One, Some(One) >>

RECURSIVE LongestSum(_)
\* The exact sum of the longest word length of each list.
LongestSum(lists) ==
    IF Len(lists) = 0 THEN Zero
    ELSE LET m == MaxLength(Head(lists))
         IN  Add(IF IsNone(m) THEN Zero ELSE Unwrap(m), LongestSum(Tail(lists)))

\* The exact length bound of the names: the longest word of each position
\* plus the separators between the positions.
Needed(args) ==
    Add(LongestSum(args.lists),
        MulSmall(args.separator,
                 IF Len(args.lists) = 0 THEN 0 ELSE Len(args.lists) - 1))

IsPowerOfTwo(a) == a # Zero /\ PowerOfTwoFrom(One, a) = a

\* C23: the capacity hint never wraps or overflows the machine word: it is a
\* power of two that is at least the sum of the longest word length of each
\* position plus the separator length times (positions - 1), or it is 0 when
\* no such power of two is representable.
C23_CapacityNeverWraps ==
    pc = "capacity"
    => /\ ~panicked
       /\ LET args == Unwrap(capacity_of) IN
            \/ IsPowerOfTwo(capacity) /\ Leq(Needed(args), capacity)
            \/ /\ capacity = Zero
               /\ ~Fits(PowerOfTwoFrom(One, Needed(args)), args.bits)

\* -------------------------------------------------------------- claims: run
\* run has reached the call of printer.
ReachedPrinter == pc \in { "printing", "printed" }

\* C21: whenever the command-line run reaches the printing step, the
\* cardinality of the final word lists (after the letter-length filter and
\* after the alliteration filter) for the requested number of words is not
\* zero; a run that does not reach it returns an error, prints nothing to
\* standard output and exits with a non-zero status.
C21_RunNeverPrintsFromNothing ==
    /\ ReachedPrinter => CardinalityOf(petnames, words) # Zero
    /\ pc = "failed" => /\ IsSome(error)
                        /\ stdout = << >>
                        /\ exit_status # None
                        /\ Unwrap(exit_status) # 0

\* A run with --letters and alliteration that has printed a name.
C21_Witness ==
    /\ pc = "printing"
    /\ Unwrap(opts).letters = 1
    /\ IsSome(letter)
    /\ Len(stdout) >= 1

\* The run was asked to alliterate.
Alliterating == IsSome(opts) /\ Unwrap(opts).alliterate

\* Every word of every name printed begins with the letter of the run, which
\* is a first letter of all three lists.
AlliteratedOutput ==
    /\ IsSome(letter)
    /\ Unwrap(letter) \in CommonFirstLetters(adjectives, << adverbs, names >>)
    /\ \A k \in 1..Len(stdout) :
         /\ stdout[k] = yielded[k].name
         /\ \A i \in 1..Len(yielded[k].tuple) :
              LET w == Unwrap(yielded[k].tuple[i]) IN
              Len(w) >= 1 /\ w[1] = Unwrap(letter)

\* The lists of a run that has returned offer no letter to alliterate with:
\* the letter given is not a first letter common to the three lists, or they
\* have no first letter in common.
NoLetterToAlliterateWith ==
    /\ pc \in { "failed", "printing", "printed" }
    /\ error # Some("FileIo")
    /\ LET firsts == CommonFirstLetters(adjectives, << adverbs, names >>)
           given == Unwrap(opts).alliterate_with
       IN  \/ IsSome(given) /\ Unwrap(given) \notin firsts
           \/ firsts = { }

\* C22 as stated: with alliteration enabled, every word of every name printed
\* begins with one letter that is a first letter of all three lists, and a
\* run whose lists offer no such letter fails with an alliteration error and
\* prints no name.
C22_AlliterationOrAlliterationError ==
    Alliterating
    => /\ ReachedPrinter => AlliteratedOutput
       /\ NoLetterToAlliterateWith
          => pc = "failed" /\ error = Some("Alliteration") /\ stdout = << >>

\* C22 amended: as above, but the run whose lists offer no such letter fails
\* with the cardinality error when the cardinality of the letter-length
\* filtered lists is zero, which is checked first, and with the alliteration
\* error otherwise; it prints no name in either case.
C22_AlliterationOrError ==
    Alliterating
    => /\ ReachedPrinter => AlliteratedOutput
       /\ NoLetterToAlliterateWith
          => /\ pc = "failed"
             /\ stdout = << >>
             /\ error = IF CardinalityOf(petnames, words) = Zero
                        THEN Some("Cardinality")
                        ELSE Some("Alliteration")

\* A run with --alliterate alone that chose its letter and printed two names
\* of three words.
C22_Witness ==
    /\ pc = "printed"
    /\ Unwrap(opts).alliterate_with = None
    /\ IsSome(letter)
    /\ words = 3
    /\ Len(stdout) = 2

====
